---- MODULE Spec2Model ----
(***************************************************************************)
(* Model of the tree-layout code of phylo_dashboard.                       *)
(*                                                                         *)
(*   callbacks.py  create_tree_plot (lines 127-299): coordinate            *)
(*                 assignment, branch traces, bootstrap markers, tip and   *)
(*                 MLST markers, figure size.                              *)
(*                 update_tree_tab1 (312-339) and export_svg (534-544):    *)
(*                 the requests of the server and the two files they       *)
(*                 share (ServerSpec).                                     *)
(*                 update_tree_tab2 (349-376), the second tab.             *)
(*                 update_phylo_folium_map (412-450) and                   *)
(*                 update_standalone_map (486-526) with the two marker     *)
(*                 lists they keep (MapSpec).                              *)
(*   app.py        get_rectangular_coordinates / draw_clade_rectangular,   *)
(*                 the layout part of the older create_tree_plot.          *)
(*                                                                         *)
(* Units.  x-coordinates and branch lengths are integers counting          *)
(* hundredths (a branch length of 1.0 is 100, the heatmap offset 0.02 is   *)
(* 2).  y-coordinates are exact rationals <<num, den>> in lowest terms,    *)
(* den > 0: the code divides by the number of children, the model keeps    *)
(* the quotient exact.                                                     *)
(*                                                                         *)
(* Trees.  A tree is a record whose nodes are 1..n numbered in pre-order   *)
(* (declaration order), node 1 is tree.root, parent[c] is the parent of c  *)
(* (0 for the root) and the children of a clade are ordered by number,     *)
(* which is the order of clade.clades.                                     *)
(***************************************************************************)
EXTENDS Integers, Sequences, FiniteSets, TLC

VARIABLES
    prog,             \* what runs: one call of "callbacks" or of "app",
                      \* one invocation of "tab2", or the "server" of
                      \* callbacks.py with its requests
    tree,             \* the tree the layout works on
    metadata,         \* the metadata table read from the uploaded file
    show_tip_labels,  \* argument of callbacks.create_tree_plot
    result,           \* "none" before the call, then "ok" or "error"
    fig,              \* what the call built
    tree_file,        \* the file "uploaded_tree.tree" of the server
    metadata_file,    \* the file "uploaded_metadata.tsv" of the server
    requests,         \* the callback invocations the server is running
    MARKERS,             \* the module-level list MARKERS (line 48)
    STANDALONE_MARKERS,  \* the module-level list STANDALONE_MARKERS (line 49)
    invocation        \* the last invocation of a map callback: its
                      \* arguments, ctx.triggered_id and what it returned

vars == <<prog, tree, metadata, show_tip_labels, result, fig,
          tree_file, metadata_file, requests,
          MARKERS, STANDALONE_MARKERS, invocation>>

\* ------------------------------------------------------------------ bounds
MaxNodes == 5
MaxRows == 2
MaxTips == 33        \* the tips of the largest tree laid out
MaxSessions == 2     \* the dashboard sessions that upload at the same time

\* --------------------------------------------------------------- sentinels
\* An optional number is <<>> (None) or <<v>>; an optional string is the
\* string or one of the sentinels below.
NoLen == <<>>          \* clade.branch_length is None
NoConf == <<>>         \* clade.confidence is None
NoName == "<None>"     \* clade.name is None
NaN == "<NaN>"         \* an empty cell of the metadata table
NoText == "<None>"     \* a trace attribute that is None or not given
Absent == "<absent>"   \* the cell of a column the metadata table does not have

\* ---------------------------------------------------------------- helpers
\* e, once v has been evaluated.  The loops below hand their running state
\* from one round to the next; evaluating it round by round keeps the
\* evaluation of a tree with many tips shallow.
Force(v, e) == IF v = v THEN e ELSE e

\* ------------------------------------------------------------- rationals
RECURSIVE GCD(_, _)
GCD(a, b) == IF b = 0 THEN a ELSE GCD(b, a % b)

Abs(a) == IF a < 0 THEN -a ELSE a

\* num/den in lowest terms (den > 0)
Rat(num, den) ==
    LET g == GCD(Abs(num), den)
    IN  <<num \div g, den \div g>>

RatInt(k) == <<k, 1>>
RatAdd(p, q) == Rat(p[1] * q[2] + q[1] * p[2], p[2] * q[2])
RatDiv(p, k) == Rat(p[1], p[2] * k)
RatMul(p, k) == Rat(p[1] * k, p[2])
RatLe(p, q) == p[1] * q[2] <= q[1] * p[2]

RECURSIVE RatSum(_)
RatSum(s) == IF s = <<>> THEN RatInt(0) ELSE RatAdd(Head(s), RatSum(Tail(s)))

RECURSIVE RatMin(_)
RatMin(s) ==
    IF Len(s) = 1 THEN s[1]
    ELSE LET m == RatMin(Tail(s)) IN IF RatLe(s[1], m) THEN s[1] ELSE m

RECURSIVE RatMax(_)
RatMax(s) ==
    IF Len(s) = 1 THEN s[1]
    ELSE LET m == RatMax(Tail(s)) IN IF RatLe(m, s[1]) THEN s[1] ELSE m

RECURSIVE IntSum(_)
IntSum(s) == IF s = <<>> THEN 0 ELSE Head(s) + IntSum(Tail(s))

Max(a, b) == IF a >= b THEN a ELSE b

SetMax(S) == CHOOSE m \in S : \A v \in S : v <= m

\* ------------------------------------------------------------ Bio.Phylo
Nodes(t) == 1..Len(t.parent)

Root == 1

RECURSIVE ChildrenFrom(_, _, _)
ChildrenFrom(t, clade, i) ==
    IF i > Len(t.parent) THEN <<>>
    ELSE IF t.parent[i] = clade THEN <<i>> \o ChildrenFrom(t, clade, i + 1)
    ELSE ChildrenFrom(t, clade, i + 1)

\* clade.clades
Clades(t, clade) == ChildrenFrom(t, clade, clade + 1)

\* clade.is_terminal()
IsTerminal(t, clade) == Clades(t, clade) = <<>>

RECURSIVE TerminalsFrom(_, _)
TerminalsFrom(t, i) ==
    IF i > Len(t.parent) THEN <<>>
    ELSE IF IsTerminal(t, i) THEN <<i>> \o TerminalsFrom(t, i + 1)
    ELSE TerminalsFrom(t, i + 1)

\* tree.get_terminals(): the tips in pre-order
GetTerminals(t) == TerminalsFrom(t, 1)

RECURSIVE LevelFrom(_, _)
LevelFrom(t, queue) ==
    IF queue = <<>> THEN <<>>
    ELSE <<Head(queue)>> \o LevelFrom(t, Tail(queue) \o Clades(t, Head(queue)))

\* tree.find_clades(order='level'): breadth first from the root
FindCladesLevel(t) == LevelFrom(t, <<Root>>)

RECURSIVE UnitDepth(_, _)
UnitDepth(t, clade) ==
    IF clade = Root
    THEN (IF t.branch_length[Root] = NoLen THEN 0 ELSE t.branch_length[Root][1])
    ELSE UnitDepth(t, t.parent[clade]) + 100

\* tree.depths(unit_branch_lengths=True): every branch counts 1.0, the root
\* starts at its own branch length (or 0)
Depths(t) == [clade \in Nodes(t) |-> UnitDepth(t, clade)]

\* --------------------------------------------- callbacks.create_tree_plot
\* px.colors.qualitative.Plotly
PlotlyPalette ==
    <<"#636EFA", "#EF553B", "#00CC96", "#AB63FA", "#FFA15A",
      "#19D3F3", "#FF6692", "#B6E880", "#FF97FF", "#FECB52">>

\* pcolors.qualitative.Vivid
VividPalette ==
    <<"rgb(229, 134, 6)", "rgb(93, 105, 177)", "rgb(82, 188, 163)",
      "rgb(153, 201, 69)", "rgb(204, 97, 176)", "rgb(36, 121, 108)",
      "rgb(218, 165, 27)", "rgb(47, 138, 196)", "rgb(118, 78, 159)",
      "rgb(237, 100, 90)", "rgb(165, 170, 153)">>

\* Series.fillna('Unknown') on one cell
FillNa(v) == IF v = NaN THEN "Unknown" ELSE v

\* metadata['location'].fillna('Unknown') ; metadata['MLST'].fillna('Unknown')
FillMetadata(rows) ==
    [i \in 1..Len(rows) |->
        [taxa |-> rows[i].taxa,
         location |-> FillNa(rows[i].location),
         MLST |-> FillNa(rows[i].MLST)]]

RECURSIVE UniqueFrom(_, _)
UniqueFrom(column, seen) ==
    IF column = <<>> THEN <<>>
    ELSE IF Head(column) \in seen THEN UniqueFrom(Tail(column), seen)
    ELSE <<Head(column)>> \o UniqueFrom(Tail(column), seen \cup {Head(column)})

\* Series.unique(): the distinct values of a column in order of appearance
Unique(column) == UniqueFrom(column, {})

Column(rows, field) == [i \in 1..Len(rows) |-> rows[i][field]]

\* {v: palette[i % len(palette)] for i, v in enumerate(column.unique())}
\* (Python counts i from 0, the sequences here from 1)
ColorMap(column, palette) ==
    LET u == Unique(column)
    IN  [v \in {u[i] : i \in 1..Len(u)} |->
            LET i == CHOOSE j \in 1..Len(u) : u[j] = v
            IN  palette[((i - 1) % Len(palette)) + 1]]

\* dict.get(key, 'gray')
ColorGet(map, key) == IF key \in DOMAIN map THEN map[key] ELSE "gray"

\* a faulty variant of LocationColors: one enumeration over both columns
LocationColorsShared(rows) ==
    ColorMap(Column(rows, "MLST") \o Column(rows, "location"), PlotlyPalette)

\* lines 143-144: location_colors
LocationColors(rows) == ColorMap(Column(rows, "location"), PlotlyPalette)

\* lines 147-148: mlst_colors
MlstColors(rows) == ColorMap(Column(rows, "MLST"), VividPalette)

\* a faulty variant of BranchLength: an absent length counted as one unit
BranchLengthUnit(t, clade) ==
    IF t.branch_length[clade] = NoLen THEN 100
    ELSE t.branch_length[clade][1]

\* branch_length = clade.branch_length if clade.branch_length else 0.0
BranchLength(t, clade) ==
    IF t.branch_length[clade] = NoLen THEN 0
    ELSE IF t.branch_length[clade][1] = 0 THEN 0
    ELSE t.branch_length[clade][1]

\* a faulty variant of NextY: the counter is not advanced
NextYSame(y_start) == y_start

\* what a terminal's call returns: y_start + 1
NextY(y_start) == y_start + 1

\* y_positions.append(y_start - 1), y_start being what the child's call returned
ChildYPosition(y_returned) == RatInt(y_returned - 1)

\* sum(y_positions) / len(y_positions)
MeanY(y_positions) == RatDiv(RatSum(y_positions), Len(y_positions))

\* assign_coordinates(clade, x_start, y_start) with the dictionaries and max_y
\* it writes passed in as st; the result is [st, ret], ret the returned y.
RECURSIVE AssignCoordinates(_, _, _, _, _)
RECURSIVE AssignChildren(_, _, _, _, _, _, _)
AssignChildren(t, kids, i, x_current, y_start, y_positions, st) ==
    IF i > Len(kids) THEN [st |-> st, ret |-> y_start, y_positions |-> y_positions]
    ELSE LET r == AssignCoordinates(t, kids[i], x_current, y_start, st)
         IN  Force(r, AssignChildren(t, kids, i + 1, x_current, r.ret,
                          Append(y_positions, ChildYPosition(r.ret)),
                          r.st))

AssignCoordinates(t, clade, x_start, y_start, st) ==
    LET x_current == x_start + BranchLength(t, clade)
    IN  IF IsTerminal(t, clade)
        THEN [st |-> [x_coords |-> [st.x_coords EXCEPT ![clade] = x_current],
                      y_coords |-> (clade :> RatInt(y_start)) @@ st.y_coords,
                      max_y |-> Max(st.max_y, y_start)],
              ret |-> NextY(y_start)]
        ELSE LET r == AssignChildren(t, Clades(t, clade), 1, x_current, y_start,
                                     <<>>, st)
             IN  [st |-> [x_coords |-> [r.st.x_coords EXCEPT ![clade] = x_current],
                          y_coords |-> (clade :> MeanY(r.y_positions)) @@ r.st.y_coords,
                          max_y |-> r.st.max_y],
                  ret |-> r.ret]

\* lines 151-175: x_coords starts as tree.depths(unit_branch_lengths=True),
\* y_coords empty, max_y 0; then assign_coordinates(tree.root)
Coordinates(t) ==
    AssignCoordinates(t, Root, 0, 0,
        [x_coords |-> Depths(t), y_coords |-> <<>>, max_y |-> 0]).st

\* a go.Scatter line trace: x=[x0, x1], y=[y0, y1]
Line(x0, y0, x1, y1) == [x |-> <<x0, x1>>, y |-> <<y0, y1>>]

\* a faulty variant of VerticalLine: drawn from the lowest child to the
\* clade itself
VerticalLineToClade(t, clade, x_coords, y_coords) ==
    LET kids == Clades(t, clade)
        y_positions == [i \in 1..Len(kids) |-> y_coords[kids[i]]]
    IN  Line(x_coords[clade], RatMin(y_positions),
             x_coords[clade], y_coords[clade])

\* lines 219-223: the vertical line of a clade with children
VerticalLine(t, clade, x_coords, y_coords) ==
    LET kids == Clades(t, clade)
        y_positions == [i \in 1..Len(kids) |-> y_coords[kids[i]]]
    IN  Line(x_coords[clade], RatMin(y_positions),
             x_coords[clade], RatMax(y_positions))

\* lines 226-231: the horizontal line from a clade to one child
HorizontalLine(clade, child, x_coords, y_coords) ==
    Line(x_coords[clade], y_coords[child], x_coords[child], y_coords[child])

\* a faulty variant of CladeLines: the vertical line is forgotten
CladeLinesHorizontal(t, clade, x_coords, y_coords) ==
    LET kids == Clades(t, clade)
    IN  [i \in 1..Len(kids) |-> HorizontalLine(clade, kids[i], x_coords, y_coords)]

\* lines 217-231: what one clade appends to tree_line_traces
CladeLines(t, clade, x_coords, y_coords) ==
    LET kids == Clades(t, clade)
    IN  IF kids = <<>> THEN <<>>
        ELSE <<VerticalLine(t, clade, x_coords, y_coords)>>
             \o [i \in 1..Len(kids) |->
                    HorizontalLine(clade, kids[i], x_coords, y_coords)]

\* a faulty variant of CladeBootstrap: the threshold itself is marked
CladeBootstrapAtLeast(t, clade, x_coords, y_coords) ==
    IF t.confidence[clade] # NoConf /\ t.confidence[clade][1] >= 90
    THEN <<[x |-> x_coords[clade], y |-> y_coords[clade],
            text |-> t.confidence[clade][1]]>>
    ELSE <<>>

\* lines 234-240: clade.confidence and clade.confidence > 0.9
CladeBootstrap(t, clade, x_coords, y_coords) ==
    IF t.confidence[clade] # NoConf
       /\ t.confidence[clade][1] # 0
       /\ t.confidence[clade][1] > 90
    THEN <<[x |-> x_coords[clade], y |-> y_coords[clade],
            text |-> t.confidence[clade][1]]>>
    ELSE <<>>

\* lines 213-240: the loop over tree.find_clades(order='level')
RECURSIVE DrawBranches(_, _, _, _, _)
DrawBranches(t, order, x_coords, y_coords, acc) ==
    IF order = <<>> THEN acc
    ELSE Force(acc, DrawBranches(t, Tail(order), x_coords, y_coords,
            [tree_line_traces |-> acc.tree_line_traces
                 \o CladeLines(t, Head(order), x_coords, y_coords),
             bootstrap_markers |-> acc.bootstrap_markers
                 \o CladeBootstrap(t, Head(order), x_coords, y_coords)]))

\* meta_row = metadata[metadata['taxa'] == clade.name]: the matching rows
RECURSIVE MetaRows(_, _)
MetaRows(rows, name) ==
    IF rows = <<>> THEN <<>>
    ELSE IF Head(rows).taxa = name THEN <<Head(rows)>> \o MetaRows(Tail(rows), name)
    ELSE MetaRows(Tail(rows), name)

\* a faulty variant of SeenLocations: the set is kept from call to call
SeenLocationsKept ==
    UNION {{requests[r].fig.tip_markers[i].name :
                i \in 1..Len(requests[r].fig.tip_markers)} :
              r \in DOMAIN requests} \ {NoText}

\* line 194: seen_locations = set()
SeenLocations == {}

\* line 195: seen_mlst = set()
SeenMlst == {}

\* a faulty variant of ShowLegend: every marker is put in the legend
ShowLegendAlways(value, seen) == TRUE

\* show_location_legend = location not in seen_locations (and the same for MLST)
ShowLegend(value, seen) == value \notin seen

\* lines 259-273: the tip marker
TipMarker(t, clade, x, y, color, location, show_legend, show_labels) ==
    [x |-> x, y |-> y,
     mode |-> IF show_labels THEN "markers+text" ELSE "markers",
     color |-> color,
     name |-> IF show_legend THEN location ELSE NoText,
     text |-> IF show_labels THEN t.name[clade] ELSE NoText,
     showlegend |-> show_legend]

\* lines 279-286: the MLST heatmap square
MlstMarker(x, y, color, mlst_value, show_legend) ==
    [x |-> x, y |-> y,
     mode |-> "markers",
     color |-> color,
     name |-> IF show_legend THEN mlst_value ELSE NoText,
     text |-> mlst_value,
     showlegend |-> show_legend]

\* lines 243-286: the loop over tree.get_terminals()
RECURSIVE DrawTips(_, _, _, _, _, _, _, _, _)
DrawTips(t, tips, rows, x_coords, y_coords, mlst_x, show_labels, colors, acc) ==
    IF tips = <<>> THEN acc
    ELSE Force(acc,
        LET clade == Head(tips)
            meta_row == MetaRows(rows, t.name[clade])
        IN  IF meta_row = <<>>
            THEN DrawTips(t, Tail(tips), rows, x_coords, y_coords,
                          mlst_x, show_labels, colors, acc)
            ELSE
                LET location == meta_row[1].location
                    mlst_value == meta_row[1].MLST
                    color == ColorGet(colors.location, location)
                    mlst_color == ColorGet(colors.mlst, mlst_value)
                    show_location_legend == ShowLegend(location, acc.seen_locations)
                    show_mlst_legend == ShowLegend(mlst_value, acc.seen_mlst)
                IN  DrawTips(t, Tail(tips), rows, x_coords, y_coords,
                        mlst_x, show_labels, colors,
                        [tip_markers |-> Append(acc.tip_markers,
                             TipMarker(t, clade, x_coords[clade], y_coords[clade],
                                 color, location, show_location_legend,
                                 show_labels)),
                         mlst_markers |-> Append(acc.mlst_markers,
                             MlstMarker(mlst_x, y_coords[clade],
                                 mlst_color, mlst_value, show_mlst_legend)),
                         seen_locations |->
                             IF show_location_legend
                             THEN acc.seen_locations \cup {location}
                             ELSE acc.seen_locations,
                         seen_mlst |->
                             IF show_mlst_legend
                             THEN acc.seen_mlst \cup {mlst_value}
                             ELSE acc.seen_mlst]))

\* line 179: max((len(clade.name) for clade in terminals if clade.name), default=10)
MaxLabelLength(t) ==
    LET tips == GetTerminals(t)
        lens == {Len(t.name[tips[i]]) :
                    i \in {j \in 1..Len(tips) : t.name[tips[j]] # NoName}}
    IN  IF lens = {} THEN 10 ELSE SetMax(lens)

\* a faulty variant of FigureHeight: the number of tips is forgotten
FigureHeightFixed(t, height) == 800

\* lines 182-183; the height and width arguments are overwritten here
FigureHeight(t, height) == Max(800, Len(GetTerminals(t)) * 25)
FigureWidth(t, width) == Max(1000, 800 + MaxLabelLength(t) * 10)

\* a faulty variant of MlstXPosition: only the tips are looked at
MlstXPositionTips(t, x_coords) ==
    LET tips == GetTerminals(t)
    IN  SetMax({x_coords[tips[i]] : i \in 1..Len(tips)}) + 2

\* line 186: max(x_coords.values()) + 0.02
MlstXPosition(t, x_coords) == SetMax({x_coords[c] : c \in Nodes(t)}) + 2

\* lines 198-210: the dummy trace that heads a group of the legend
LegendTitle(name) == [name |-> name, showlegend |-> TRUE]

\* the figure of a call that has not run or that raised
NoFigure ==
    [x_coords |-> <<>>, y_coords |-> <<>>, max_y |-> 0,
     location_legend_title |-> [name |-> NoText, showlegend |-> FALSE],
     mlst_legend_title |-> [name |-> NoText, showlegend |-> FALSE],
     tree_line_traces |-> <<>>, bootstrap_markers |-> <<>>,
     tip_markers |-> <<>>, mlst_markers |-> <<>>,
     mlst_x_position |-> 0, height |-> 0, width |-> 0]

\* callbacks.create_tree_plot(tree_file, metadata_file, show_tip_labels,
\* height, width) on the tree as it is after root_at_midpoint (line 132)
CreateTreePlotFigure(t, meta, show_labels, height, width) ==
    LET rows == FillMetadata(meta.rows)
        colors == [location |-> LocationColors(rows), mlst |-> MlstColors(rows)]
        co == Coordinates(t)
        mlst_x_position == MlstXPosition(t, co.x_coords)
        br == DrawBranches(t, FindCladesLevel(t), co.x_coords, co.y_coords,
                  [tree_line_traces |-> <<>>, bootstrap_markers |-> <<>>])
        tp == DrawTips(t, GetTerminals(t), rows, co.x_coords, co.y_coords,
                  mlst_x_position, show_labels, colors,
                  [tip_markers |-> <<>>, mlst_markers |-> <<>>,
                   seen_locations |-> SeenLocations, seen_mlst |-> SeenMlst])
    IN  [x_coords |-> co.x_coords, y_coords |-> co.y_coords, max_y |-> co.max_y,
         location_legend_title |-> LegendTitle("<b>Location</b>"),
         mlst_legend_title |-> LegendTitle("<b>MLST</b>"),
         tree_line_traces |-> br.tree_line_traces,
         bootstrap_markers |-> br.bootstrap_markers,
         tip_markers |-> tp.tip_markers, mlst_markers |-> tp.mlst_markers,
         mlst_x_position |-> mlst_x_position,
         height |-> FigureHeight(t, height), width |-> FigureWidth(t, width)]

\* a faulty variant of HasColumns: "and" for "or", one column is enough
HasColumnsAny(meta) == {"taxa", "location", "MLST"} \cap meta.columns # {}

\* lines 136-137: the three columns the metadata table must have
HasColumns(meta) == {"taxa", "location", "MLST"} \subseteq meta.columns

\* the message of the ValueError of line 137
ColumnsMessage == "Metadata file must contain 'taxa', 'location', and 'MLST' columns."

\* create_tree_plot as a whole: what it returns or raises.  tree_read and
\* metadata_read are what lines 131 and 135 found in the two files, <<>>
\* for a file that does not exist.
CreateTreePlotCall(tree_read, metadata_read, show_labels, height, width) ==
    IF tree_read = <<>> \/ metadata_read = <<>>
    THEN [result |-> "error", fig |-> NoFigure, message |-> "No such file or directory"]
    ELSE IF ~HasColumns(metadata_read[1])
    THEN [result |-> "error", fig |-> NoFigure, message |-> ColumnsMessage]
    ELSE [result |-> "ok",
          fig |-> CreateTreePlotFigure(tree_read[1], metadata_read[1], show_labels,
                                       height, width),
          message |-> NoText]

\* line 127: height=None, width=None when the caller gives no size
CreateTreePlotResult(tree_read, metadata_read, show_labels) ==
    CreateTreePlotCall(tree_read, metadata_read, show_labels, NoText, NoText)

\* ------------------------------------------------------------------ app.py
\* calc_y_coordinates(clade, current_y) with ycoords passed in; the result
\* is [ycoords, ret]
RECURSIVE CalcYCoordinates(_, _, _, _)
RECURSIVE CalcYSubclades(_, _, _, _, _)
CalcYSubclades(t, kids, i, current_y, ycoords) ==
    IF i > Len(kids) THEN [ycoords |-> ycoords, ret |-> current_y]
    ELSE LET r == CalcYCoordinates(t, kids[i], current_y, ycoords)
         IN  CalcYSubclades(t, kids, i + 1, r.ret, r.ycoords)

\* (ycoords[clade.clades[0]] + ycoords[clade.clades[-1]]) / 2
ExtremesMidpoint(t, clade, ycoords) ==
    LET kids == Clades(t, clade)
    IN  RatDiv(RatAdd(ycoords[kids[1]], ycoords[kids[Len(kids)]]), 2)

CalcYCoordinates(t, clade, current_y, ycoords) ==
    IF IsTerminal(t, clade)
    THEN [ycoords |-> (clade :> RatInt(current_y)) @@ ycoords,
          ret |-> current_y + 1]
    ELSE LET r == CalcYSubclades(t, Clades(t, clade), 1, current_y, ycoords)
         IN  [ycoords |-> (clade :> ExtremesMidpoint(t, clade, r.ycoords))
                              @@ r.ycoords,
              ret |-> r.ret]

\* get_rectangular_coordinates(tree)
GetRectangularCoordinates(t) ==
    [xcoords |-> Depths(t),
     ycoords |-> CalcYCoordinates(t, Root, 0, <<>>).ycoords]

\* a line shape dict(type='line', x0, y0, x1, y1)
Shape(x0, y0, x1, y1) == [x0 |-> x0, y0 |-> y0, x1 |-> x1, y1 |-> y1]

\* lines 32-36: the horizontal line of the clade's own branch
BranchShape(clade, x_start, x_coords, y_coords) ==
    Shape(x_start, y_coords[clade], x_coords[clade], y_coords[clade])

\* lines 39-46: the vertical line joining the first and the last child
ConnectorShape(t, clade, x_coords, y_coords) ==
    LET kids == Clades(t, clade)
    IN  Shape(x_coords[clade], y_coords[kids[Len(kids)]],
              x_coords[clade], y_coords[kids[1]])

\* draw_clade_rectangular(clade, x_start, line_shapes, x_coords, y_coords);
\* the result is line_shapes after the call
RECURSIVE DrawCladeRectangular(_, _, _, _, _, _)
RECURSIVE DrawSubclades(_, _, _, _, _, _, _)
DrawSubclades(t, kids, i, x_end, line_shapes, x_coords, y_coords) ==
    IF i > Len(kids) THEN line_shapes
    ELSE DrawSubclades(t, kids, i + 1, x_end,
             DrawCladeRectangular(t, kids[i], x_end, line_shapes, x_coords, y_coords),
             x_coords, y_coords)

DrawCladeRectangular(t, clade, x_start, line_shapes, x_coords, y_coords) ==
    LET own == Append(line_shapes, BranchShape(clade, x_start, x_coords, y_coords))
    IN  IF Clades(t, clade) = <<>> THEN own
        ELSE DrawSubclades(t, Clades(t, clade), 1, x_coords[clade],
                 Append(own, ConnectorShape(t, clade, x_coords, y_coords)),
                 x_coords, y_coords)

\* app.create_tree_plot, lines 53-60: the coordinates and the line shapes
AppLayout(t) ==
    LET co == GetRectangularCoordinates(t)
    IN  [x_coords |-> co.xcoords, y_coords |-> co.ycoords,
         line_shapes |-> DrawCladeRectangular(t, Root, 0, <<>>,
                             co.xcoords, co.ycoords)]

\* ------------------------------------------------------------------ inputs
RECURSIVE PathToRoot(_, _)
PathToRoot(parent, c) == IF c = 0 THEN {} ELSE {c} \cup PathToRoot(parent, parent[c])

\* the parent arrays of the ordered trees with n nodes, numbered in pre-order
RECURSIVE Shapes(_)
Shapes(n) ==
    IF n = 1 THEN {<<0>>}
    ELSE UNION {{Append(s, a) : a \in PathToRoot(s, n - 1)} : s \in Shapes(n - 1)}

AllShapes == UNION {Shapes(n) : n \in 1..MaxNodes}

\* the shape of (A,(B,C)); with every length 1.0 it is the example tree of
\* the specification
ExampleShape == <<0, 1, 1, 3, 3>>

\* root_at_midpoint (line 132) leaves a root with exactly two children
MidpointShapes ==
    {s \in AllShapes : Cardinality({c \in 1..Len(s) : s[c] = Root}) = 2}

\* the shapes among them in which every other internal node has at least two
\* children
BranchingShapes ==
    {s \in MidpointShapes :
        \A c \in 2..Len(s) : Cardinality({d \in 1..Len(s) : s[d] = c}) # 1}

\* the branch lengths a Newick file may give: none, negative, positive
BranchLengths == {NoLen, <<-50>>, <<100>>}

TipNames == <<"A", "B", "C", "D", "E", "F", "G", "H">>

\* the k-th tip in declaration order is named TipNames[k]
DefaultNames(s) ==
    [c \in 1..Len(s) |->
        IF \E d \in 1..Len(s) : s[d] = c THEN NoName
        ELSE TipNames[Cardinality({e \in 1..c : \A d \in 1..Len(s) : s[d] # e})]]

AllColumns == {"taxa", "location", "MLST"}

Taxa == {"A", "B", "C"}
Locations == {"Paris", NaN}
Mlsts == {"ST1", NaN}
Rows == [taxa : Taxa, location : Locations, MLST : Mlsts]

RowSeqs == UNION {[1..k -> Rows] : k \in 0..MaxRows}

\* a complete table: one row per tip, in tip order
CompleteRows(s) ==
    LET names == DefaultNames(s)
        tips == GetTerminals([parent |-> s])
    IN  [i \in 1..Len(tips) |->
            [taxa |-> names[tips[i]], location |-> "Paris", MLST |-> "ST1"]]

\* callbacks.py on trees with any branch lengths and a complete table.  The
\* tree is the one create_tree_plot holds after Phylo.read and
\* root_at_midpoint; the lengths are not narrowed to those rooting leaves.
InitBranchLengths ==
    /\ prog = "callbacks"
    /\ \E s \in MidpointShapes :
         /\ \E bl \in [1..Len(s) -> BranchLengths] :
              tree = [parent |-> s, branch_length |-> bl,
                      name |-> DefaultNames(s),
                      confidence |-> [c \in 1..Len(s) |-> NoConf]]
         /\ metadata = [columns |-> AllColumns, rows |-> CompleteRows(s)]
    /\ show_tip_labels = FALSE

\* callbacks.py on branching trees with branch lengths 1.0 and any metadata
\* table
InitMetadata ==
    /\ prog = "callbacks"
    /\ \E s \in BranchingShapes :
         tree = [parent |-> s,
                 branch_length |-> [c \in 1..Len(s) |->
                                       IF c = Root THEN NoLen ELSE <<100>>],
                 name |-> DefaultNames(s),
                 confidence |-> [c \in 1..Len(s) |-> NoConf]]
    /\ \E rows \in RowSeqs : metadata = [columns |-> AllColumns, rows |-> rows]
    /\ show_tip_labels \in BOOLEAN

\* app.py on any tree; of the branch lengths it reads the root's alone
InitApp ==
    /\ prog = "app"
    /\ \E s \in AllShapes :
         /\ \E rbl \in BranchLengths :
              tree = [parent |-> s,
                      branch_length |-> [c \in 1..Len(s) |->
                                            IF c = Root THEN rbl ELSE NoLen],
                      name |-> DefaultNames(s),
                      confidence |-> [c \in 1..Len(s) |-> NoConf]]
         /\ metadata = [columns |-> AllColumns, rows |-> CompleteRows(s)]
    /\ show_tip_labels = FALSE

\* a table that lacks the columns outside columns
WithColumns(rows, columns) ==
    [i \in 1..Len(rows) |->
        [f \in AllColumns |-> IF f \in columns THEN rows[i][f] ELSE Absent]]

\* callbacks.py on a table that lacks one or more of the three columns
InitColumns ==
    /\ prog = "callbacks"
    /\ \E s \in BranchingShapes :
         /\ tree = [parent |-> s,
                    branch_length |-> [c \in 1..Len(s) |->
                                          IF c = Root THEN NoLen ELSE <<100>>],
                    name |-> DefaultNames(s),
                    confidence |-> [c \in 1..Len(s) |-> NoConf]]
         /\ \E columns \in (SUBSET AllColumns) \ {AllColumns} :
              metadata = [columns |-> columns,
                          rows |-> WithColumns(CompleteRows(s), columns)]
    /\ show_tip_labels = FALSE

\* a tip name longer than twenty characters
LongName == "Salmonella_enterica_LT2"

\* what a leaf of a Newick file may be called: a name, the same name again,
\* a long name, nothing
LeafNames == {"A", LongName, NoName}

\* the table the trees with free names are joined to
NamesTable ==
    <<[taxa |-> "A", location |-> "Paris", MLST |-> "ST1"],
      [taxa |-> LongName, location |-> NaN, MLST |-> "ST1"]>>

\* callbacks.py on trees whose leaves carry any of LeafNames
InitNames ==
    /\ prog = "callbacks"
    /\ \E s \in BranchingShapes :
         \E names \in [1..Len(s) -> LeafNames] :
            /\ \A c \in 1..Len(s) :
                  (\E d \in 1..Len(s) : s[d] = c) => names[c] = NoName
            /\ tree = [parent |-> s,
                       branch_length |-> [c \in 1..Len(s) |->
                                             IF c = Root THEN NoLen ELSE <<100>>],
                       name |-> names,
                       confidence |-> [c \in 1..Len(s) |-> NoConf]]
    /\ metadata = [columns |-> AllColumns, rows |-> NamesTable]
    /\ show_tip_labels \in BOOLEAN

\* the support values an internal node label may give (hundredths): none,
\* 0, the threshold 0.9 itself, 0.95
Confidences == {NoConf, <<0>>, <<90>>, <<95>>}

\* callbacks.py on trees with support values.  The Newick reader reads a
\* support value off the label of a clade that has children, and
\* root_at_midpoint makes a new root: the tips and the root carry none.
InitSupport ==
    /\ prog = "callbacks"
    /\ \E s \in MidpointShapes :
         /\ \E conf \in [1..Len(s) -> Confidences] :
              /\ \A c \in 1..Len(s) :
                    (c = Root \/ ~(\E d \in 1..Len(s) : s[d] = c))
                        => conf[c] = NoConf
              /\ tree = [parent |-> s,
                         branch_length |-> [c \in 1..Len(s) |->
                                               IF c = Root THEN NoLen ELSE <<100>>],
                         name |-> DefaultNames(s),
                         confidence |-> conf]
         /\ metadata = [columns |-> AllColumns, rows |-> CompleteRows(s)]
    /\ show_tip_labels = FALSE

\* A tree with many tips: the root has two children, each of them up to
\* five children, each of those a bunch of up to four tips.  In pre-order a
\* bunch takes 5 nodes and a child of the root 1 + 5 * 5 = 26.
BunchParent(c) ==
    IF c = 1 THEN 0
    ELSE LET r == (c - 2) % 26
         IN  IF r = 0 THEN 1
             ELSE IF (r - 1) % 5 = 0 THEN c - r
             ELSE c - ((r - 1) % 5)

\* the number of the n-th tip of that tree
BunchTip(n) ==
    3 + ((n - 1) \div 20) * 26 + (((n - 1) % 20) \div 4) * 5 + 1 + ((n - 1) % 4)

\* the tree cut after its n-th tip, 20 < n <= 40
BunchShape(n) == [c \in 1..BunchTip(n) |-> BunchParent(c)]

\* callbacks.py on trees with so many tips that the height follows them
InitSizing ==
    /\ prog = "callbacks"
    /\ \E n \in (MaxTips - 1)..MaxTips : \E first \in LeafNames :
         LET s == BunchShape(n)
         IN  tree = [parent |-> s,
                     branch_length |-> [c \in 1..Len(s) |->
                                           IF c = Root THEN NoLen ELSE <<100>>],
                     name |-> [c \in 1..Len(s) |->
                                  IF c = BunchTip(1) THEN first
                                  ELSE IF \E d \in 1..Len(s) : s[d] = c THEN NoName
                                  ELSE IF c = Len(s) THEN NoName
                                  ELSE "t"],
                     confidence |-> [c \in 1..Len(s) |-> NoConf]]
    /\ metadata = [columns |-> AllColumns, rows |-> NamesTable]
    /\ show_tip_labels = FALSE

\* what the variables of the server hold while a single call is modelled
NoFile == <<>>
NoServer ==
    /\ tree_file = NoFile
    /\ metadata_file = NoFile
    /\ requests = <<>>

\* what the variables of the map callbacks hold while none of them runs
NoInvocation ==
    [callback |-> "none", triggered_id |-> NoText, geojson_contents |-> NoText,
     marker_name |-> NoText, marker_city |-> NoText, response |-> "none",
     marker_lat |-> <<>>, marker_lon |-> <<>>,
     children |-> [kind |-> "none", text |-> NoText, markers |-> <<>>]]
NoMap ==
    /\ MARKERS = <<>>
    /\ STANDALONE_MARKERS = <<>>
    /\ invocation = NoInvocation
MapUnchanged == UNCHANGED <<MARKERS, STANDALONE_MARKERS, invocation>>

\* ----------------------------------------------------------------- actions
\* callbacks.create_tree_plot: raises ValueError when a column is missing,
\* otherwise returns the figure
CreateTreePlot ==
    /\ prog = "callbacks"
    /\ result = "none"
    /\ IF HasColumns(metadata)
       THEN /\ result' = "ok"
            /\ fig' = CreateTreePlotFigure(tree, metadata, show_tip_labels,
                                           NoText, NoText)
       ELSE /\ result' = "error"
            /\ fig' = NoFigure
    /\ UNCHANGED <<prog, tree, metadata, show_tip_labels>>
    /\ UNCHANGED <<tree_file, metadata_file, requests>>
    /\ MapUnchanged

\* app.create_tree_plot: the coordinates and line shapes of the older program
AppCreateTreePlot ==
    /\ prog = "app"
    /\ result = "none"
    /\ result' = "ok"
    /\ fig' = AppLayout(tree)
    /\ UNCHANGED <<prog, tree, metadata, show_tip_labels>>
    /\ UNCHANGED <<tree_file, metadata_file, requests>>
    /\ MapUnchanged

\* ------------------------------------------------------------- the server
\* The Dash server runs callbacks in threads.  A file is <<>> while it does
\* not exist and <<contents>> afterwards, the contents of the tree file
\* being the tree create_tree_plot makes of it.  Request 0 is export_svg,
\* request s > 0 the update_tree_tab1 of session s.
Sessions == 1..MaxSessions
Requests == 0..MaxSessions

\* a tree with branch lengths 1.0 and the default tip names
PlainTree(s) ==
    [parent |-> s,
     branch_length |-> [c \in 1..Len(s) |-> IF c = Root THEN NoLen ELSE <<100>>],
     name |-> DefaultNames(s),
     confidence |-> [c \in 1..Len(s) |-> NoConf]]

\* tree_contents of session s: (A,B) or (A,(B,C))
SessionTree(s) == IF s % 2 = 1 THEN PlainTree(<<0, 1, 1>>) ELSE PlainTree(ExampleShape)

\* metadata_contents of session s: a complete table, or one without the
\* MLST column
SessionMetadata(s) ==
    IF s % 2 = 1
    THEN [columns |-> AllColumns,
          rows |-> <<[taxa |-> "A", location |-> "Paris", MLST |-> "ST1"],
                     [taxa |-> "B", location |-> "Paris", MLST |-> NaN]>>]
    ELSE [columns |-> {"taxa", "location"},
          rows |-> WithColumns(CompleteRows(ExampleShape), {"taxa", "location"})]

\* 'SHOW' in show_labels (line 329); the checklist value export_svg is given
RequestShow(r) == r # 0 /\ r % 2 = 0

\* what a callback has returned
NoChildren == [kind |-> "none", figure |-> NoFigure, text |-> NoText]
Graph(figure) == [kind |-> "Graph", figure |-> figure, text |-> NoText]
Div(text) == [kind |-> "Div", figure |-> NoFigure, text |-> text]
SendBytes(figure) == [kind |-> "send_bytes", figure |-> figure, text |-> NoText]
Unhandled(text) == [kind |-> "exception", figure |-> NoFigure, text |-> text]

\* a request that has not started
NewRequest ==
    [pc |-> "start", tree |-> <<>>, metadata |-> <<>>,
     result |-> "none", fig |-> NoFigure, children |-> NoChildren]

ServerInit ==
    /\ prog = "server"
    /\ tree = PlainTree(<<0>>)
    /\ metadata = [columns |-> AllColumns, rows |-> <<>>]
    /\ show_tip_labels = FALSE
    /\ result = "none"
    /\ fig = NoFigure
    /\ tree_file = NoFile
    /\ metadata_file = NoFile
    /\ requests = [r \in Requests |-> NewRequest]
    /\ NoMap

ServerUnchanged ==
    UNCHANGED <<prog, tree, metadata, show_tip_labels, result, fig,
                MARKERS, STANDALONE_MARKERS, invocation>>

\* update_tree_tab1, lines 314, 338-339: one of the two uploads is missing
UpdateTreeTab1Missing(s) ==
    /\ prog = "server"
    /\ requests[s].pc = "start"
    /\ requests' = [requests EXCEPT ![s].pc = "done",
           ![s].children = Div("Please upload both a tree file and a metadata file.")]
    /\ UNCHANGED <<tree_file, metadata_file>>
    /\ ServerUnchanged

\* update_tree_tab1, lines 317-323: the tree is written to uploaded_tree.tree
UpdateTreeTab1WriteTree(s) ==
    /\ prog = "server"
    /\ requests[s].pc = "start"
    /\ tree_file' = <<SessionTree(s)>>
    /\ requests' = [requests EXCEPT ![s].pc = "wrote_tree"]
    /\ UNCHANGED metadata_file
    /\ ServerUnchanged

\* update_tree_tab1, lines 324-325: the table is written to
\* uploaded_metadata.tsv
UpdateTreeTab1WriteMetadata(s) ==
    /\ prog = "server"
    /\ requests[s].pc = "wrote_tree"
    /\ metadata_file' = <<SessionMetadata(s)>>
    /\ requests' = [requests EXCEPT ![s].pc = "wrote_metadata"]
    /\ UNCHANGED tree_file
    /\ ServerUnchanged

\* the request is about to call create_tree_plot: update_tree_tab1 at line
\* 332, export_svg at line 538
AtCall(r) ==
    IF r = 0 THEN requests[r].pc = "start" ELSE requests[r].pc = "wrote_metadata"

\* create_tree_plot, lines 131-132: the tree file is read
CreateTreePlotReadTree(r) ==
    /\ prog = "server"
    /\ AtCall(r)
    /\ requests' = [requests EXCEPT ![r].pc = "read_tree", ![r].tree = tree_file]
    /\ UNCHANGED <<tree_file, metadata_file>>
    /\ ServerUnchanged

\* what the callback makes of the outcome of create_tree_plot:
\* update_tree_tab1 lines 332-337, export_svg lines 538-544
Returned(r, out) ==
    IF r = 0
    THEN IF out.result = "ok" THEN SendBytes(out.fig) ELSE Unhandled(out.message)
    ELSE IF out.result = "ok" THEN Graph(out.fig)
         ELSE Div("Error: " \o out.message)

\* create_tree_plot from line 135 on (the table is read, the figure built or
\* the error raised) and the return of the callback
CreateTreePlotReturn(r) ==
    /\ prog = "server"
    /\ requests[r].pc = "read_tree"
    /\ LET out == CreateTreePlotResult(requests[r].tree, metadata_file, RequestShow(r))
       IN  requests' = [requests EXCEPT ![r].pc = "done",
                                        ![r].metadata = metadata_file,
                                        ![r].result = out.result,
                                        ![r].fig = out.fig,
                                        ![r].children = Returned(r, out)]
    /\ UNCHANGED <<tree_file, metadata_file>>
    /\ ServerUnchanged

ServerNext ==
    \/ \E s \in Sessions : UpdateTreeTab1Missing(s)
    \/ \E s \in Sessions : UpdateTreeTab1WriteTree(s)
    \/ \E s \in Sessions : UpdateTreeTab1WriteMetadata(s)
    \/ \E r \in Requests : CreateTreePlotReadTree(r)
    \/ \E r \in Requests : CreateTreePlotReturn(r)

ServerSpec == ServerInit /\ [][ServerNext]_vars

\* ------------------------------------------------------------ the second tab
\* update_tree_tab2 (lines 349-376), one invocation.  requests[1] holds its
\* arguments and what it returns: tree is tree_contents and metadata is
\* metadata_contents, <<>> for an upload that is missing; the callback
\* writes them to tree_tab2.tree and metadata_tab2.tsv and create_tree_plot
\* reads these files back.
Tab2Trees == {<<>>, <<SessionTree(1)>>, <<SessionTree(2)>>}
Tab2Tables ==
    {<<>>, <<SessionMetadata(1)>>, <<SessionMetadata(2)>>,
     <<[columns |-> AllColumns, rows |-> CompleteRows(ExampleShape)]>>}

InitTab2 ==
    /\ prog = "tab2"
    /\ tree = PlainTree(<<0>>)
    /\ metadata = [columns |-> AllColumns, rows |-> <<>>]
    /\ show_tip_labels \in BOOLEAN
    /\ tree_file = NoFile
    /\ metadata_file = NoFile
    /\ \E tree_contents \in Tab2Trees : \E metadata_contents \in Tab2Tables :
          requests = <<[NewRequest EXCEPT !.tree = tree_contents,
                                          !.metadata = metadata_contents]>>

\* lines 351-353 when an upload is missing, otherwise lines 355-376 with the
\* call create_tree_plot(tree_file, metadata_file, show_tip_labels,
\* height=600, width=600) of line 370
UpdateTreeTab2 ==
    /\ prog = "tab2"
    /\ requests[1].pc = "start"
    /\ IF requests[1].tree = <<>> \/ requests[1].metadata = <<>>
       THEN requests' = [requests EXCEPT ![1].pc = "done",
                ![1].children = Div("Please upload both a tree file and a metadata file.")]
       ELSE LET out == CreateTreePlotCall(requests[1].tree, requests[1].metadata,
                                          show_tip_labels, 600, 600)
            IN  requests' = [requests EXCEPT ![1].pc = "done",
                                             ![1].result = out.result,
                                             ![1].fig = out.fig,
                                             ![1].children = Returned(1, out)]
    /\ UNCHANGED <<tree_file, metadata_file>>
    /\ ServerUnchanged

\* ----------------------------------------------------------- uneven trees
\* the tree (A,(t1,..,tm,(u1,..,uk))): a tip, then a clade of m tips
\* followed by a clade of k tips; root_at_midpoint leaves such a tree when
\* the branch of A is the long one
UnevenShape(m, k) ==
    [c \in 1..(m + k + 4) |->
        IF c = 1 THEN 0
        ELSE IF c <= 3 THEN 1
        ELSE IF c <= m + 4 THEN 3
        ELSE m + 4]

\* callbacks.py on the uneven trees
InitUneven ==
    /\ prog = "callbacks"
    /\ \E m \in 1..3 : \E k \in 2..4 :
          /\ tree = PlainTree(UnevenShape(m, k))
          /\ metadata = [columns |-> AllColumns,
                         rows |-> CompleteRows(UnevenShape(m, k))]
    /\ show_tip_labels \in BOOLEAN

\* ------------------------------------------------------ the specification
Init ==
    \/ /\ \/ InitBranchLengths
          \/ InitMetadata
          \/ InitApp
          \/ InitColumns
          \/ InitNames
          \/ InitSupport
          \/ InitSizing
          \/ InitUneven
       /\ result = "none"
       /\ fig = NoFigure
       /\ NoServer
       /\ NoMap
    \/ /\ InitTab2
       /\ result = "none"
       /\ fig = NoFigure
       /\ NoMap

Next == CreateTreePlot \/ AppCreateTreePlot \/ UpdateTreeTab2

Spec == Init /\ [][Next]_vars

\* ----------------------------------------------------------- the map tabs
\* update_phylo_folium_map and update_standalone_map, one invocation after
\* the other.  Latitudes and longitudes are whole degrees, an input that is
\* None is <<>> (numbers) or NoText (text).  Zoom, map centre and filename
\* do not reach the marker lists and are left out.
MaxMarkers == 2      \* the markers a list holds at most

PhyloAddButton == "phylo-add-marker-btn"
StandaloneAddButton == "standalone-add-marker-btn"

\* ctx.triggered_id: None on page load, the add button, or another input
PhyloTriggers == {NoText, PhyloAddButton, "map-zoom"}
StandaloneTriggers == {NoText, StandaloneAddButton, "standalone-map-zoom"}

\* the uploaded GeoJSON: none, one that decodes, one that does not
GeojsonContents == {NoText, "data:application/json;base64,e30=", "data:garbage"}
MarkerNames == {NoText, "lab"}
MarkerCities == {NoText, "Paris"}
MarkerLats == {<<>>, <<10>>}
MarkerLons == {<<>>, <<20>>}

\* what the OpenCage service answers when it is asked
Responses == {"found", "not_found"}

\* Python truth of a text value: None and "" are false
Truthy(text) == text # NoText /\ text # ""

\* get_city_coordinates (lines 51-73) given the answer of the service:
\* lat, lon, error_msg
GetCityCoordinates(city_name, response) ==
    IF response = "found"
    THEN [lat |-> <<48>>, lon |-> <<2>>, error_msg |-> NoText]
    ELSE [lat |-> <<>>, lon |-> <<>>,
          error_msg |-> "City not found. Please enter a valid city name."]

\* lines 433-440 and 497-503: whether split, b64decode and json.loads succeed
Decodes(geojson_contents) == geojson_contents = "data:application/json;base64,e30="

\* what a map callback returns: the Iframe of the map drawn with the
\* markers given to generate_folium_map, or the Div of an error
Iframe(markers) == [kind |-> "Iframe", text |-> NoText, markers |-> markers]
ErrorDiv(text) == [kind |-> "Div", text |-> text, markers |-> <<>>]

\* line 430 and line 516: the dictionary appended
Marker(marker_name, marker_lat, marker_lon) ==
    [name |-> marker_name, lat |-> marker_lat[1], lon |-> marker_lon[1]]

\* the inputs Dash hands to a callback: on page load (no trigger) the
\* components still hold the values of the layout, which are all None
PageLoadInputs(i) ==
    i.triggered_id = NoText =>
        /\ i.geojson_contents = NoText
        /\ i.marker_name = NoText
        /\ i.marker_city = NoText
        /\ i.marker_lat = <<>>
        /\ i.marker_lon = <<>>

\* the service is asked only when there is a city to ask for
Asked(i) == IF Truthy(i.marker_city) THEN i.response \in Responses ELSE i.response = "none"

Inputs(callback, triggers) ==
    {i \in [callback : {callback}, triggered_id : triggers,
            geojson_contents : GeojsonContents, marker_name : MarkerNames,
            marker_city : MarkerCities, response : Responses \cup {"none"},
            marker_lat : MarkerLats, marker_lon : MarkerLons] :
        PageLoadInputs(i) /\ Asked(i)}

\* update_phylo_folium_map, lines 412-450: the list it leaves and what it
\* returns
PhyloOutcome(markers, i) ==
    LET cleared == IF i.triggered_id = NoText THEN <<>> ELSE markers
        city == IF Truthy(i.marker_city)
                THEN GetCityCoordinates(i.marker_city, i.response)
                ELSE [lat |-> i.marker_lat, lon |-> i.marker_lon, error_msg |-> NoText]
        adds == i.triggered_id = PhyloAddButton /\ Truthy(i.marker_name)
        appended == IF adds /\ city.lat # <<>> /\ city.lon # <<>>
                    THEN Append(cleared, Marker(i.marker_name, city.lat, city.lon))
                    ELSE cleared
    IN  IF city.error_msg # NoText
        THEN [markers |-> cleared, children |-> ErrorDiv("Error: " \o city.error_msg)]
        ELSE IF adds /\ (city.lat = <<>> \/ city.lon = <<>>)
        THEN [markers |-> cleared,
              children |-> ErrorDiv("Error: Provide either a city name or latitude/longitude for the marker.")]
        ELSE IF Truthy(i.geojson_contents) /\ ~Decodes(i.geojson_contents)
        THEN [markers |-> appended, children |-> ErrorDiv("Error parsing GeoJSON")]
        ELSE [markers |-> appended, children |-> Iframe(appended)]

\* update_standalone_map, lines 486-526
StandaloneOutcome(markers, i) ==
    LET cleared == IF i.triggered_id = NoText THEN <<>> ELSE markers
        adds == i.triggered_id = StandaloneAddButton /\ Truthy(i.marker_name)
        city == IF Truthy(i.marker_city)
                THEN GetCityCoordinates(i.marker_city, i.response)
                ELSE [lat |-> i.marker_lat, lon |-> i.marker_lon, error_msg |-> NoText]
    IN  IF Truthy(i.geojson_contents) /\ ~Decodes(i.geojson_contents)
        THEN [markers |-> cleared, children |-> ErrorDiv("Error parsing GeoJSON")]
        ELSE IF ~adds
        THEN [markers |-> cleared, children |-> Iframe(cleared)]
        ELSE IF city.error_msg # NoText
        THEN [markers |-> cleared, children |-> ErrorDiv("Error: " \o city.error_msg)]
        ELSE IF city.lat = <<>> \/ city.lon = <<>>
        THEN [markers |-> cleared,
              children |-> ErrorDiv("Error: Provide either a city name or latitude/longitude for the marker.")]
        ELSE LET appended == Append(cleared, Marker(i.marker_name, city.lat, city.lon))
             IN  [markers |-> appended, children |-> Iframe(appended)]

\* the invocation as the variable keeps it
Invoked(i, children) ==
    [callback |-> i.callback, triggered_id |-> i.triggered_id,
     geojson_contents |-> i.geojson_contents, marker_name |-> i.marker_name,
     marker_city |-> i.marker_city, response |-> i.response,
     marker_lat |-> i.marker_lat, marker_lon |-> i.marker_lon,
     children |-> children]

MapInit ==
    /\ prog = "map"
    /\ tree = PlainTree(<<0>>)
    /\ metadata = [columns |-> AllColumns, rows |-> <<>>]
    /\ show_tip_labels = FALSE
    /\ result = "none"
    /\ fig = NoFigure
    /\ tree_file = NoFile
    /\ metadata_file = NoFile
    /\ requests = <<>>
    /\ NoMap

MapRest ==
    UNCHANGED <<prog, tree, metadata, show_tip_labels, result, fig,
                tree_file, metadata_file, requests>>

UpdatePhyloFoliumMap ==
    /\ prog = "map"
    /\ \E i \in Inputs("update_phylo_folium_map", PhyloTriggers) :
          LET out == PhyloOutcome(MARKERS, i)
          IN  /\ Len(out.markers) <= MaxMarkers
              /\ MARKERS' = out.markers
              /\ invocation' = Invoked(i, out.children)
    /\ UNCHANGED STANDALONE_MARKERS
    /\ MapRest

UpdateStandaloneMap ==
    /\ prog = "map"
    /\ \E i \in Inputs("update_standalone_map", StandaloneTriggers) :
          LET out == StandaloneOutcome(STANDALONE_MARKERS, i)
          IN  /\ Len(out.markers) <= MaxMarkers
              /\ STANDALONE_MARKERS' = out.markers
              /\ invocation' = Invoked(i, out.children)
    /\ UNCHANGED MARKERS
    /\ MapRest

MapNext == UpdatePhyloFoliumMap \/ UpdateStandaloneMap

MapSpec == MapInit /\ [][MapNext]_vars

\* ------------------------------------------------------ reading the state
\* callbacks.create_tree_plot has returned a figure
Done == prog = "callbacks" /\ result = "ok"

\* app.create_tree_plot has laid the tree out
AppDone == prog = "app" /\ result = "ok"

TreeNodes == 1..Len(tree.parent)
ChildSet(n) == {c \in TreeNodes : tree.parent[c] = n}
Internal(n) == ChildSet(n) # {}
Tips == {n \in TreeNodes : ChildSet(n) = {}}
Ancestors(n) == PathToRoot(tree.parent, n) \ {n}
Depth(n) == Cardinality(Ancestors(n))

\* the tips declared before tip n
TipRank(n) == Cardinality({e \in Tips : e < n})

RECURSIVE RatSumOver(_, _)
RatSumOver(S, y) ==
    IF S = {} THEN RatInt(0)
    ELSE LET c == CHOOSE d \in S : TRUE
         IN  RatAdd(y[c], RatSumOver(S \ {c}, y))

\* ------------------------------------------------------------------ claims
\* C1: after coordinate assignment every internal node n has y(n) equal to
\* the arithmetic mean of the y of its direct children (a child that is
\* itself internal counts with its own y); on (A,(B,C)) the node (B,C) gets
\* 1.5 and the root 0.75.
C1_InternalMean ==
    Done =>
        /\ \A n \in TreeNodes :
              Internal(n) =>
                  RatMul(fig.y_coords[n], Cardinality(ChildSet(n)))
                      = RatSumOver(ChildSet(n), fig.y_coords)
        /\ tree.parent = ExampleShape =>
              /\ fig.y_coords[3] = <<3, 2>>
              /\ fig.y_coords[1] = <<3, 4>>

\* what a branch length adds to x: nothing when absent or zero
Contribution(n) ==
    IF tree.branch_length[n] = <<>> THEN 0
    ELSE IF tree.branch_length[n] = <<0>> THEN 0
    ELSE tree.branch_length[n][1]

\* C2: after coordinate assignment every non-root node n with parent p has
\* x(n) = x(p) + branch_length(n), an absent or zero branch length adding 0;
\* so x(n) is x(root) plus the lengths on the path to n, whatever the order
\* of the children.
C2_XAdditivity ==
    Done =>
        \A n \in TreeNodes \ {Root} :
            /\ fig.x_coords[n] = fig.x_coords[tree.parent[n]] + Contribution(n)
            /\ fig.x_coords[n] = fig.x_coords[Root]
                   + IntSum([i \in 1..Depth(n) |->
                        Contribution(CHOOSE a \in PathToRoot(tree.parent, n) :
                                         Depth(a) = i)])

\* a laid-out tree with an absent, a negative and a positive branch length,
\* the last two levels below the root
C2_Witness ==
    /\ Done
    /\ \E n \in TreeNodes \ {Root} : tree.branch_length[n] = <<>>
    /\ \E n \in TreeNodes \ {Root} : tree.branch_length[n] = <<-50>>
    /\ \E n \in TreeNodes \ {Root} :
          tree.branch_length[n] = <<100>> /\ Depth(n) = 2

\* C3: the k-th terminal in declaration order, k = 0..N-1, gets y = k, in
\* callbacks.py and in app.py alike, so the terminal y-values are exactly
\* 0..N-1, each used once.
C3_YBijection ==
    result = "ok" =>
        /\ \A n \in Tips : fig.y_coords[n] = <<TipRank(n), 1>>
        /\ {fig.y_coords[n] : n \in Tips}
               = {<<k, 1>> : k \in 0..(Cardinality(Tips) - 1)}

\* a laid-out tree with three tips, two of them below an internal child
C3_Witness ==
    /\ Done
    /\ Cardinality(Tips) = 3
    /\ \E n \in Tips : Depth(n) = 2
    /\ \E n \in Tips : fig.y_coords[n] = <<2, 1>>

\* ---- the metadata join, read off the inputs
\* the rows of the table whose taxa is the name of tip n
RowsOf(n) == {i \in 1..Len(metadata.rows) : metadata.rows[i].taxa = tree.name[n]}
HasRow(n) == RowsOf(n) # {}
FirstRow(n) == metadata.rows[CHOOSE i \in RowsOf(n) : \A j \in RowsOf(n) : i <= j]

\* the value of a field the table gives tip n, an empty cell read as "Unknown"
JoinedValue(n, field) ==
    IF FirstRow(n)[field] = NaN THEN "Unknown" ELSE FirstRow(n)[field]

\* the value of a field tip n carries: that of its row, "Unknown" without one
TipValue(n, field) == IF HasRow(n) THEN JoinedValue(n, field) ELSE "Unknown"

RECURSIVE JoinedFrom(_)
JoinedFrom(n) ==
    IF n > Len(tree.parent) THEN <<>>
    ELSE IF ChildSet(n) = {} /\ HasRow(n) THEN <<n>> \o JoinedFrom(n + 1)
    ELSE JoinedFrom(n + 1)

\* the tips that have a row, in declaration order
JoinedTips == JoinedFrom(1)

\* C4: every terminal node, also one whose name matches no metadata row, has
\* exactly one tip marker and one MLST marker; the markers of a tip without
\* a row carry the value "Unknown".
C4_MissingRowKept ==
    Done =>
        /\ Len(fig.tip_markers) = Cardinality(Tips)
        /\ Len(fig.mlst_markers) = Cardinality(Tips)
        /\ \A n \in Tips :
              /\ Cardinality({j \in 1..Len(fig.tip_markers) :
                     /\ fig.tip_markers[j].x = fig.x_coords[n]
                     /\ fig.tip_markers[j].y = fig.y_coords[n]}) = 1
              /\ Cardinality({j \in 1..Len(fig.mlst_markers) :
                     /\ fig.mlst_markers[j].y = fig.y_coords[n]
                     /\ fig.mlst_markers[j].text = TipValue(n, "MLST")}) = 1

\* the tips that carry value v of a field, and the first of them
Carriers(field, v) == {n \in Tips : TipValue(n, field) = v}
FirstCarrier(field, v) == CHOOSE n \in Carriers(field, v) : \A e \in Carriers(field, v) : n <= e

\* how many distinct values are met before v when the tips are scanned in
\* declaration order
OccurrenceIndex(field, v) ==
    Cardinality({w \in {TipValue(n, field) : n \in Tips} :
                    FirstCarrier(field, w) < FirstCarrier(field, v)})

PaletteColor(palette, i) == palette[(i % Len(palette)) + 1]

\* C5: the i-th distinct value met while scanning the tips in declaration
\* order (i from 0) has colour palette[i mod |palette|] on every marker that
\* carries it, whatever the order of the rows of the table.  Stated for the
\* tables that hold a row for every tip.
C5_ColorByTipOrder ==
    (Done /\ \A n \in Tips : HasRow(n)) =>
        \A n \in Tips :
            /\ \A j \in 1..Len(fig.tip_markers) :
                  fig.tip_markers[j].y = fig.y_coords[n] =>
                      fig.tip_markers[j].color =
                          PaletteColor(PlotlyPalette,
                              OccurrenceIndex("location", TipValue(n, "location")))
            /\ \A j \in 1..Len(fig.mlst_markers) :
                  fig.mlst_markers[j].y = fig.y_coords[n] =>
                      fig.mlst_markers[j].color =
                          PaletteColor(VividPalette,
                              OccurrenceIndex("MLST", TipValue(n, "MLST")))

\* legend deduplication of one field: markers is the field's marker list,
\* one marker per tip that has a row, in declaration order
LegendDedup(markers, field) ==
    LET joined == JoinedTips
        value == [k \in 1..Len(joined) |-> JoinedValue(joined[k], field)]
    IN  /\ Len(markers) = Len(joined)
        /\ \A j \in 1..Len(markers) :
              /\ markers[j].y = fig.y_coords[joined[j]]
              /\ markers[j].showlegend = (\A i \in 1..(j - 1) : value[i] # value[j])
              /\ markers[j].showlegend => markers[j].name = value[j]
              /\ \A i \in 1..(j - 1) :
                     value[i] = value[j] => markers[i].color = markers[j].color
        /\ Cardinality({j \in 1..Len(markers) : markers[j].showlegend})
               = Cardinality({value[k] : k \in 1..Len(value)})

RECURSIVE IntSumOver(_, _)
IntSumOver(S, f) ==
    IF S = {} THEN 0
    ELSE LET c == CHOOSE d \in S : TRUE
         IN  f[c] + IntSumOver(S \ {c}, f)

InternalNodes == {n \in TreeNodes : Internal(n)}

\* 1 + the number of children of an internal node
SegmentsOf == [n \in InternalNodes |-> 1 + Cardinality(ChildSet(n))]

\* C7: every internal node with k children contributes 1 + k line traces
\* (one vertical, k horizontal) and a terminal none: the number of tree line
\* traces is the sum of 1 + k over the internal nodes.
C7_SegmentCount ==
    Done =>
        /\ Len(fig.tree_line_traces) = IntSumOver(InternalNodes, SegmentsOf)
        /\ Len(fig.tree_line_traces)
               = Cardinality(InternalNodes) + (Cardinality(TreeNodes) - 1)

\* a laid-out tree with two internal nodes of different degree
C7_Witness ==
    /\ Done
    /\ \E n \in InternalNodes : Cardinality(ChildSet(n)) = 1
    /\ \E n \in InternalNodes : Cardinality(ChildSet(n)) = 2
    /\ Len(fig.tree_line_traces) = 5

\* the i-th child of n
ChildAt(n, i) == CHOOSE c \in ChildSet(n) : Cardinality({d \in ChildSet(n) : d <= c}) = i

MinChildY(n) ==
    fig.y_coords[CHOOSE c \in ChildSet(n) :
        \A d \in ChildSet(n) : RatLe(fig.y_coords[c], fig.y_coords[d])]
MaxChildY(n) ==
    fig.y_coords[CHOOSE c \in ChildSet(n) :
        \A d \in ChildSet(n) : RatLe(fig.y_coords[d], fig.y_coords[c])]

\* C8: for every internal node n with children c_1..c_k the vertical segment
\* lies at x(n) and spans min y(c_i) to max y(c_i), and the horizontal
\* segment of c_i runs from (x(n), y(c_i)) to (x(c_i), y(c_i)); in
\* create_tree_plot of callbacks.py and in draw_clade_rectangular, whose
\* span ends are the y of the first and of the last child.
\* (before(m, n): m is visited before n in level order; offset[n]: the
\* traces appended before those of n; shape[n]: the shapes appended by
\* draw_clade_rectangular before it reaches n)
C8_SegmentGeometry ==
    LET internal == InternalNodes
        depth == [n \in TreeNodes |-> Depth(n)]
        before(m, n) == depth[m] < depth[n] \/ (depth[m] = depth[n] /\ m < n)
        offset == [n \in internal |->
                      IntSumOver({m \in internal : before(m, n)}, SegmentsOf)]
        shape == [n \in TreeNodes |->
                      (n - 1) + Cardinality({m \in internal : m < n})]
    IN
    /\ Done =>
          \A n \in internal :
              /\ fig.tree_line_traces[offset[n] + 1]
                     = [x |-> <<fig.x_coords[n], fig.x_coords[n]>>,
                        y |-> <<MinChildY(n), MaxChildY(n)>>]
              /\ \A i \in 1..Cardinality(ChildSet(n)) :
                     fig.tree_line_traces[offset[n] + 1 + i]
                         = [x |-> <<fig.x_coords[n], fig.x_coords[ChildAt(n, i)]>>,
                            y |-> <<fig.y_coords[ChildAt(n, i)],
                                    fig.y_coords[ChildAt(n, i)]>>]
    /\ AppDone =>
          \A n \in internal :
              /\ fig.line_shapes[shape[n] + 2]
                     = [x0 |-> fig.x_coords[n], y0 |-> MaxChildY(n),
                        x1 |-> fig.x_coords[n], y1 |-> MinChildY(n)]
              /\ fig.line_shapes[shape[n] + 2].y1
                     = fig.y_coords[ChildAt(n, 1)]
              /\ fig.line_shapes[shape[n] + 2].y0
                     = fig.y_coords[ChildAt(n, Cardinality(ChildSet(n)))]
              /\ \A c \in ChildSet(n) :
                     fig.line_shapes[shape[c] + 1]
                         = [x0 |-> fig.x_coords[n], y0 |-> fig.y_coords[c],
                            x1 |-> fig.x_coords[c], y1 |-> fig.y_coords[c]]

\* a laid-out tree whose root has an internal child with two children at
\* another x than their parent
C8_Witness ==
    /\ Done
    /\ \E n \in InternalNodes \ {Root} :
          /\ Cardinality(ChildSet(n)) = 2
          /\ \A c \in ChildSet(n) : fig.x_coords[c] # fig.x_coords[n]
          /\ fig.x_coords[n] # fig.x_coords[Root]

\* C9: in every layout that is produced, x does not decrease from a node to
\* any of its descendants.
C9_XMonotone ==
    Done =>
        \A n \in TreeNodes : \A a \in Ancestors(n) :
            fig.x_coords[a] <= fig.x_coords[n]

HasNegativeLength ==
    \E n \in TreeNodes :
        tree.branch_length[n] # <<>> /\ tree.branch_length[n][1] < 0

\* C10: when a node of the tree has a negative branch length the call fails
\* and returns no layout.
C10_NegativeLengthRejected ==
    (prog = "callbacks" /\ result # "none" /\ HasNegativeLength) =>
        /\ result = "error"
        /\ fig = NoFigure

\* ---- names
\* two terminal nodes carry the same name
DuplicateTipNames ==
    \E a \in Tips : \E b \in Tips :
        a # b /\ tree.name[a] # NoName /\ tree.name[a] = tree.name[b]

\* C12: when two terminal nodes share a name the call fails and returns no
\* layout; the two tips are not joined to the same metadata row.
C12_DuplicateTipRejected ==
    (prog = "callbacks" /\ result # "none" /\ DuplicateTipNames) =>
        /\ result = "error"
        /\ fig = NoFigure

UnnamedLeaf == \E n \in Tips : tree.name[n] = NoName

\* C13: a tree with a terminal node that has no name is rejected: the call
\* fails and returns no layout.
C13_UnnamedLeafRejected ==
    (prog = "callbacks" /\ result # "none" /\ UnnamedLeaf) =>
        /\ result = "error"
        /\ fig = NoFigure

\* ---- support
\* m is visited before n in level order
LevelBefore(m, n) == Depth(m) < Depth(n) \/ (Depth(m) = Depth(n) /\ m < n)

\* the internal nodes whose support is present and above 0.9
Supported ==
    {n \in InternalNodes :
        tree.confidence[n] # <<>> /\ tree.confidence[n][1] > 90}

\* the k-th of them in level order
SupportedAt(k) ==
    CHOOSE n \in Supported :
        Cardinality({m \in Supported : LevelBefore(m, n)}) = k - 1

Blanked(field, v) ==
    [metadata EXCEPT !.rows =
        [i \in 1..Len(metadata.rows) |-> [metadata.rows[i] EXCEPT ![field] = v]]]

\* C15: the location markers (colour, legend entry, legend flag) are those
\* of the table with the MLST column blanked, and the MLST markers those of
\* the table with the location column blanked: tables that agree on taxa
\* and on one field give the same markers of that field, also when
\* "Unknown" is a value of both fields.
C15_IndependentFields ==
    (Done /\ HasColumns(metadata)) =>
        /\ fig.tip_markers =
               CreateTreePlotFigure(tree, Blanked("MLST", "ST1"), show_tip_labels,
                                    NoText, NoText).tip_markers
        /\ fig.mlst_markers =
               CreateTreePlotFigure(tree, Blanked("location", "Paris"),
                                    show_tip_labels, NoText, NoText).mlst_markers

\* two tips with a marker; "Unknown" is the location of both and the MLST of
\* the first alone
C15_Witness ==
    /\ Done
    /\ Len(fig.tip_markers) = 2
    /\ fig.tip_markers[1].name = "Unknown"
    /\ fig.mlst_markers[1].text = "Unknown"
    /\ fig.mlst_markers[2].text = "ST1"
    /\ ~fig.tip_markers[2].showlegend
    /\ fig.mlst_markers[2].showlegend

\* ---- the root
\* C18: the root is laid out at x = 0, also when it carries a branch length.
C18_RootAtZero == Done => fig.x_coords[Root] = 0

\* C19: the horizontal segments are one per non-root node, none for the
\* root: callbacks.py draws 1 + k traces per internal node with k children,
\* app.py one connector per internal node and one branch per non-root node,
\* and its first shape is not a branch of the root.
C19_NoRootSegment ==
    /\ Done =>
          Len(fig.tree_line_traces) - Cardinality(InternalNodes)
              = Cardinality(TreeNodes) - 1
    /\ AppDone =>
          /\ Len(fig.line_shapes) - Cardinality(InternalNodes)
                 = Cardinality(TreeNodes) - 1
          /\ fig.line_shapes[1]
                 # [x0 |-> 0, y0 |-> fig.y_coords[Root],
                    x1 |-> fig.x_coords[Root], y1 |-> fig.y_coords[Root]]

\* ---- sizing
NamedTips == {n \in Tips : tree.name[n] # NoName}

\* the length of the longest name of a named tip
LongestName ==
    CHOOSE l \in {Len(tree.name[n]) : n \in NamedTips} :
        \A n \in NamedTips : Len(tree.name[n]) <= l

\* C20: with N tips and L the length of the longest name among the named
\* tips, height = max(800, 25 N) and width = max(1000, 800 + 10 L) (1000
\* when no tip is named); the coordinates are not scaled by either: the
\* tips keep y = 0..N-1 and x stays the sum of the branch lengths.
C20_Sizing ==
    Done =>
        /\ fig.height = Max(800, Cardinality(Tips) * 25)
        /\ fig.width = IF NamedTips = {} THEN 1000
                       ELSE Max(1000, 800 + LongestName * 10)
        /\ \A n \in Tips : fig.y_coords[n] = <<TipRank(n), 1>>
        /\ \A n \in TreeNodes \ {Root} :
              fig.x_coords[n] = fig.x_coords[tree.parent[n]] + Contribution(n)

\* a laid-out tree with more than 32 tips, one of them with a name of more
\* than twenty characters and one without a name
C20_Witness ==
    /\ Done
    /\ Cardinality(Tips) > 32
    /\ fig.height > 800
    /\ fig.width > 1000
    /\ UnnamedLeaf

\* ---- the server
\* the requests that went through create_tree_plot and are over
Called == {r \in Requests : requests[r].pc = "done" /\ requests[r].result # "none"}

\* the table the request read lacks one of the three columns
LacksColumn(r) ==
    /\ requests[r].metadata # <<>>
    /\ ~({"taxa", "location", "MLST"} \subseteq requests[r].metadata[1].columns)

\* C11: when the table create_tree_plot reads lacks taxa, location or MLST,
\* the call raises and returns no figure, no coordinate, segment or marker
\* being computed, and update_tree_tab1 returns an error message, not a
\* graph.
C11_MissingColumn ==
    \A r \in Called :
        LacksColumn(r) =>
            /\ requests[r].result = "error"
            /\ requests[r].fig = NoFigure
            /\ requests[r].children.figure = NoFigure
            /\ r \in Sessions =>
                  /\ requests[r].children.kind = "Div"
                  /\ requests[r].children.text = "Error: " \o ColumnsMessage

\* a session whose table lacks the MLST column has got its error message
C11_Witness ==
    \E s \in Sessions :
        /\ s \in Called
        /\ LacksColumn(s)
        /\ requests[s].metadata = <<SessionMetadata(s)>>
        /\ requests[s].children.kind = "Div"

C17_OwnSnapshot ==
    \A s \in Sessions :
        s \in Called =>
            /\ requests[s].tree = <<SessionTree(s)>>
            /\ requests[s].metadata = <<SessionMetadata(s)>>
            /\ requests[s].children.figure
                   = CreateTreePlotResult(<<SessionTree(s)>>, <<SessionMetadata(s)>>,
                                          RequestShow(s)).fig

\* C21: all MLST markers share one x, which is strictly greater than the x of
\* every node of the tree, and the MLST marker of a tip has the y of that
\* tip's own marker.
C21_HeatmapColumn ==
    Done =>
        /\ Len(fig.mlst_markers) = Len(fig.tip_markers)
        /\ \A n \in TreeNodes : fig.mlst_x_position > fig.x_coords[n]
        /\ \A j \in 1..Len(fig.mlst_markers) :
              /\ fig.mlst_markers[j].x = fig.mlst_x_position
              /\ fig.mlst_markers[j].y = fig.tip_markers[j].y

\* a figure with two MLST markers at different heights whose tree has an
\* internal node to the right of every tip
C21_Witness ==
    /\ Done
    /\ Len(fig.mlst_markers) >= 2
    /\ fig.mlst_markers[1].y # fig.mlst_markers[2].y
    /\ \E n \in InternalNodes : \A c \in Tips : fig.x_coords[n] > fig.x_coords[c]

\* update_tree_tab2 has returned a figure
Tab2Done == prog = "tab2" /\ requests[1].children.kind = "Graph"

\* C22: the figure update_tree_tab2 returns, built by the call with
\* height=600 and width=600, has height 600 and width 600.
C22_Tab2Size ==
    Tab2Done =>
        /\ requests[1].children.figure.height = 600
        /\ requests[1].children.figure.width = 600

\* no internal node of the tree has more than two children
AtMostBinary == \A n \in TreeNodes : Cardinality(ChildSet(n)) <= 2

\* C23: on a tree in which each internal node has at most two children,
\* assign_coordinates of callbacks.py and get_rectangular_coordinates of
\* app.py give every node the same y.
C23_PoliciesAgree ==
    (Done /\ AtMostBinary) =>
        \A n \in TreeNodes :
            fig.y_coords[n] = GetRectangularCoordinates(tree).ycoords[n]

\* C24: in every layout create_tree_plot produces, the y of an internal node
\* lies between the smallest and the largest y of its children, so the
\* vertical connector drawn at a node passes through the node.
C24_NodeOnConnector ==
    Done =>
        \A n \in InternalNodes :
            /\ RatLe(MinChildY(n), fig.y_coords[n])
            /\ RatLe(fig.y_coords[n], MaxChildY(n))

\* the add-marker button of a map callback
AddButton(callback) ==
    IF callback = "update_phylo_folium_map" THEN PhyloAddButton ELSE StandaloneAddButton

\* what an invocation i may make of a marker list, old before and new
\* after: an invocation that returns an error leaves it as it was, the page
\* load empties it, the add button with a name appends one marker of that
\* name behind the others, every other trigger leaves it as it was
AddLogStep(old, new, i) ==
    IF i.children.kind = "Div" THEN new = old
    ELSE IF i.triggered_id = NoText THEN new = <<>>
    ELSE IF i.triggered_id = AddButton(i.callback) /\ Truthy(i.marker_name)
    THEN /\ Len(new) = Len(old) + 1
         /\ SubSeq(new, 1, Len(old)) = old
         /\ new[Len(new)].name = i.marker_name
    ELSE new = old

\* C25: each marker list is an add-log.  An invocation of its callback with
\* no trigger empties it, an add-button invocation with a name and an
\* available latitude and longitude appends its marker, every other
\* trigger and every invocation that returns an error leaves it unchanged,
\* and no callback changes the list of the other.
C25_AddLog ==
    [][/\ invocation'.callback = "update_phylo_folium_map" =>
            /\ AddLogStep(MARKERS, MARKERS', invocation')
            /\ STANDALONE_MARKERS' = STANDALONE_MARKERS
       /\ invocation'.callback = "update_standalone_map" =>
            /\ AddLogStep(STANDALONE_MARKERS, STANDALONE_MARKERS', invocation')
            /\ MARKERS' = MARKERS]_vars

====
